---- MODULE Spec2Model ----
(***************************************************************************)
(* A model of sjpeg's bit writer (src/src/bit_writer.h): the byte sinks    *)
(* (MemorySink, StringSink), the BitWriter with its 0xff escaping, and the *)
(* BitCounter.  Bodies that the header only declares (the sinks' Commit,   *)
(* MemorySink's constructor / Reset, BitWriter::Flush, BitCounter::AddBits)*)
(* are modelled from the specification's description of them.             *)
(***************************************************************************)
EXTENDS Integers, Sequences, FiniteSets, TLC

VARIABLES
  sink,      \* the byte sink: a MemorySink or a StringSink record
  bw,        \* the BitWriter: nb_bits_, bits_, byte_pos_, buf_
  bc,        \* the BitCounter: bits_, bit_pos_, size_
  ret,       \* what the last call returned (a pointer for Commit, a bool otherwise)
  lastop,    \* name of the last operation that ran
  phase,     \* "open", "final" (after Finalize) or "reset" (after Reset)
  wr,        \* sink client: bytes written into the region since the last Commit
  acked,     \* history: the bytes acknowledged as used by Commit calls, in order
  pre,       \* history: what the last operation saw and did
  marks,     \* history: per byte of the stream, whether FlushBits stored it as an escape
  calls,     \* history: the <<bits, nb>> the caller appended, in call order
  h          \* history: counts of calls made, and whether an allocation ever failed

vars == <<sink, bw, bc, ret, lastop, phase, wr, acked, pre, marks, calls, h>>
wvars == <<bw, bc, marks, calls, h>>

----------------------------------------------------------------------------
(* Bounds of the model *)

MaxNeed == 4     \* largest pos_ + extra_size a Commit of the sink client asks for
MaxExtra == 2    \* largest extra_size of the sink client
MaxHint == 1     \* largest expected_size given to MemorySink's constructor
MaxOps == 2      \* PutBits / PutPackedCode calls in one stream
MaxFlush == 1    \* Flush calls in one stream
RegionSize == 8  \* bytes the encoder reserves at a time: a worst-case Flush fits

(* Program constants *)

Marker == 255    \* the byte that gets escaped
ByteBits == 8
WordBits == 32
MaxNb == 24
MaxFlushBytes == 6

Null == -1       \* nullptr, as a value of a pointer that is otherwise an offset
Uninit == -2     \* content of a byte of a new[] buffer nobody wrote yet

ByteVals == {7, Marker}

Max(a, b) == IF a >= b THEN a ELSE b

----------------------------------------------------------------------------
(* The sinks *)

IsMem(s) == s.kind = "MemorySink"

\* the sink's buffer, and how many bytes of it exist
Data(s) == IF IsMem(s) THEN s.buf_ ELSE s.str_
Cap(s) == IF IsMem(s) THEN s.max_pos_ ELSE Len(s.str_)

\* memcpy(new_buf, buf_, pos_) into a fresh buffer of new_size bytes
CopyForwardDrop(buf, pos, new_size) ==
  [i \in 1..new_size |-> IF i < pos THEN buf[i] ELSE Uninit]
CopyForward(buf, pos, new_size) ==
  [i \in 1..new_size |-> IF i <= pos THEN buf[i] ELSE Uninit]

\* the capacity a growth allocates: at least double, or the exact need if larger
GrowExact(max_pos, need) == need
GrowTo(max_pos, need) == Max(need, 2 * max_pos)

\* MemorySink::Commit; ok: whether the allocation succeeds if it is reached.
\* The pointer returned is buf_ + pos_: null when the sink holds no buffer.
MemCommit(m, used_size, extra_size, ok) ==
  LET pos == m.pos_ + used_size
      need == pos + extra_size
  IN IF need > m.max_pos_
     THEN IF ~ok
          THEN [sink |-> [m EXCEPT !.pos_ = pos], ret |-> Null]
          ELSE LET new_size == GrowTo(m.max_pos_, need)
               IN [sink |-> [kind |-> "MemorySink",
                             buf_ |-> CopyForward(m.buf_, pos, new_size),
                             null |-> FALSE,
                             pos_ |-> pos,
                             max_pos_ |-> new_size],
                   ret |-> pos]
     ELSE [sink |-> [m EXCEPT !.pos_ = pos],
           ret |-> IF m.null THEN Null ELSE pos]

\* MemorySink::MemorySink(expected_size): the sink owns a heap buffer of
\* expected_size bytes, also when that is 0; ok: whether its allocation
\* succeeds.  A failure leaves the sink without a buffer, and the constructor
\* cannot report it.
MemNew(expected_size, ok) ==
  IF ok
  THEN [kind |-> "MemorySink",
        buf_ |-> [i \in 1..expected_size |-> Uninit],
        null |-> FALSE, pos_ |-> 0, max_pos_ |-> expected_size]
  ELSE [kind |-> "MemorySink", buf_ |-> <<>>, null |-> TRUE,
        pos_ |-> 0, max_pos_ |-> 0]

\* MemorySink::Reset
MemReset(m) ==
  [kind |-> "MemorySink", buf_ |-> <<>>, null |-> TRUE, pos_ |-> 0, max_pos_ |-> 0]

\* MemorySink::Release(buf_ptr, size_ptr): hands over the buffer and the number
\* of bytes used, then forgets the buffer and resets
MemReleaseCapacity(m) ==
  [buf |-> m.buf_, null |-> m.null, size |-> m.max_pos_, sink |-> MemReset(m)]
MemRelease(m) ==
  [buf |-> m.buf_, null |-> m.null, size |-> m.pos_, sink |-> MemReset(m)]

\* std::string::resize(n): truncates, or appends zero bytes
Resize(str, n) ==
  [i \in 1..n |-> IF i <= Len(str) THEN str[i] ELSE 0]

\* StringSink::StringSink(output)
StrNew(output) == [kind |-> "StringSink", str_ |-> output, pos_ |-> 0]

\* StringSink::Commit; ok: whether the resize gets its memory
StrCommitNoExtra(s, used_size, extra_size, ok) ==
  LET pos == s.pos_ + used_size
  IN IF pos + extra_size > Len(s.str_) /\ ~ok
     THEN [sink |-> [s EXCEPT !.pos_ = pos], ret |-> Null]
     ELSE [sink |-> [s EXCEPT !.pos_ = pos, !.str_ = Resize(s.str_, pos)],
           ret |-> pos]
StrCommit(s, used_size, extra_size, ok) ==
  LET pos == s.pos_ + used_size
  IN IF pos + extra_size > Len(s.str_) /\ ~ok
     THEN [sink |-> [s EXCEPT !.pos_ = pos], ret |-> Null]
     ELSE [sink |-> [s EXCEPT !.pos_ = pos,
                              !.str_ = Resize(s.str_, pos + extra_size)],
           ret |-> pos]

\* StringSink::Finalize: str_->resize(pos_); return true
StrFinalizeKeep(s) == [sink |-> s, ret |-> TRUE]
StrFinalize(s) ==
  [sink |-> [s EXCEPT !.str_ = Resize(s.str_, s.pos_)], ret |-> TRUE]

\* StringSink::Reset: str_->clear()
StrReset(s) == [s EXCEPT !.str_ = <<>>]

\* MemorySink::Finalize: nothing to do, return true
MemFinalize(m) == [sink |-> m, ret |-> TRUE]

\* ByteSink's virtual calls, dispatched on the sink's class
Commit(s, used_size, extra_size, ok) ==
  IF IsMem(s) THEN MemCommit(s, used_size, extra_size, ok)
  ELSE StrCommit(s, used_size, extra_size, ok)
SinkFinalize(s) == IF IsMem(s) THEN MemFinalize(s) ELSE StrFinalize(s)
SinkReset(s) == IF IsMem(s) THEN MemReset(s) ELSE StrReset(s)

\* the buffer after the caller stored `bytes` from offset `off` on
StoreAt(buf, off, bytes) ==
  [i \in 1..Len(buf) |->
     IF i > off /\ i <= off + Len(bytes) THEN bytes[i - off] ELSE buf[i]]
Store(s, off, bytes) ==
  IF IsMem(s) THEN [s EXCEPT !.buf_ = StoreAt(s.buf_, off, bytes)]
  ELSE [s EXCEPT !.str_ = StoreAt(s.str_, off, bytes)]

----------------------------------------------------------------------------
(* 32-bit arithmetic of the accumulator: a uint32_t is its 32 bits, most  *)
(* significant first                                                        *)

WordIdx == 1..WordBits

\* the uint32_t of value x, for 0 <= x < 2^31
ToWord(x) ==
  [i \in WordIdx |-> IF WordBits - i > 30 THEN 0 ELSE (x \div 2 ^ (WordBits - i)) % 2]

\* the value of the low n bits of w, n <= 30
RECURSIVE LowVal(_, _)
LowVal(w, n) ==
  IF n = 0 THEN 0 ELSE 2 * LowVal([i \in WordIdx |-> IF i = 1 THEN 0 ELSE w[i - 1]], n - 1)
                       + w[WordBits]

Zero == ToWord(0)

\* w << n and w >> n on a uint32_t, 0 <= n < 32
Shl(w, n) == [i \in WordIdx |-> IF i + n <= WordBits THEN w[i + n] ELSE 0]
Shr(w, n) == [i \in WordIdx |-> IF i - n >= 1 THEN w[i - n] ELSE 0]

\* a | b and a & b
BitOr(a, b) == [i \in WordIdx |-> IF a[i] = 1 \/ b[i] = 1 THEN 1 ELSE 0]
BitAnd(a, b) == [i \in WordIdx |-> IF a[i] = 1 /\ b[i] = 1 THEN 1 ELSE 0]
BitNot(a) == [i \in WordIdx |-> 1 - a[i]]

\* (uint8_t) w
Byte(w) == LowVal(w, ByteBits)

----------------------------------------------------------------------------
(* The bit writer *)

\* BitWriter::BitWriter(sink)
BitWriterNew == [nb_bits_ |-> 0, bits_ |-> Zero, byte_pos_ |-> 0, buf_ |-> Null]

\* one byte stored through buf_[byte_pos_++]; esc: by the escaping statement
Stored(v, esc) == [v |-> v, esc |-> esc]

\* BitWriter::FlushBits on accumulator `bits` holding `nb` bits; `out` collects
\* the bytes stored through buf_[byte_pos_++]
RECURSIVE FlushBitsNoEscape(_, _, _)
FlushBitsNoEscape(bits, nb, out) ==
  IF nb >= ByteBits
  THEN FlushBitsNoEscape(Shl(bits, ByteBits), nb - ByteBits,
                         Append(out, Stored(Byte(Shr(bits, WordBits - ByteBits)), FALSE)))
  ELSE [bits_ |-> bits, nb_bits_ |-> nb, out |-> out]
RECURSIVE FlushBitsKeepByte(_, _, _)
FlushBitsKeepByte(bits, nb, out) ==
  IF nb > ByteBits
  THEN LET tmp == Byte(Shr(bits, WordBits - ByteBits))
       IN FlushBitsKeepByte(Shl(bits, ByteBits), nb - ByteBits,
                            IF tmp = Marker
                            THEN out \o <<Stored(tmp, FALSE), Stored(0, TRUE)>>
                            ELSE Append(out, Stored(tmp, FALSE)))
  ELSE [bits_ |-> bits, nb_bits_ |-> nb, out |-> out]
RECURSIVE FlushBitsNoShift(_, _, _)
FlushBitsNoShift(bits, nb, out) ==
  IF nb >= ByteBits
  THEN LET tmp == Byte(Shr(bits, WordBits - ByteBits))
       IN FlushBitsNoShift(bits, nb - ByteBits,
                    IF tmp = Marker
                    THEN out \o <<Stored(tmp, FALSE), Stored(0, TRUE)>>
                    ELSE Append(out, Stored(tmp, FALSE)))
  ELSE [bits_ |-> bits, nb_bits_ |-> nb, out |-> out]
RECURSIVE FlushBitsLongEscape(_, _, _)
FlushBitsLongEscape(bits, nb, out) ==
  IF nb >= ByteBits
  THEN LET tmp == Byte(Shr(bits, WordBits - ByteBits))
       IN FlushBitsLongEscape(Shl(bits, ByteBits), nb - ByteBits,
                    IF tmp = Marker
                    THEN out \o <<Stored(tmp, FALSE), Stored(0, TRUE),
                                  Stored(0, TRUE)>>
                    ELSE Append(out, Stored(tmp, FALSE)))
  ELSE [bits_ |-> bits, nb_bits_ |-> nb, out |-> out]
RECURSIVE FlushBits(_, _, _)
FlushBits(bits, nb, out) ==
  IF nb >= ByteBits
  THEN LET tmp == Byte(Shr(bits, WordBits - ByteBits))
       IN FlushBits(Shl(bits, ByteBits), nb - ByteBits,
                    IF tmp = Marker
                    THEN out \o <<Stored(tmp, FALSE), Stored(0, TRUE)>>
                    ELSE Append(out, Stored(tmp, FALSE)))
  ELSE [bits_ |-> bits, nb_bits_ |-> nb, out |-> out]

\* the asserts of PutBits
ValidCode(bits, nb) ==
  /\ nb <= MaxNb /\ nb > 0
  /\ BitAnd(bits, BitNot(ToWord(2 ^ nb - 1))) = Zero

\* BitWriter::PutBits(bits, nb) on accumulator `acc`, `nbits` bits pending
PutBitsShiftByNb(acc, nbits, bits, nb) ==
  LET f == FlushBits(acc, nbits, <<>>)
  IN [bits_ |-> BitOr(f.bits_, Shl(bits, WordBits - nb)),
      nb_bits_ |-> f.nb_bits_ + nb,
      out |-> f.out]
PutBits(acc, nbits, bits, nb) ==
  LET f == FlushBits(acc, nbits, <<>>)
      n == f.nb_bits_ + nb
  IN [bits_ |-> BitOr(f.bits_, Shl(bits, WordBits - n)),
      nb_bits_ |-> n,
      out |-> f.out]

\* BitWriter::PutByte(value) past its assertion: buf_[byte_pos_++] = value
PutByte(acc, nbits, value) ==
  [bits_ |-> acc, nb_bits_ |-> nbits, out |-> <<Stored(value, FALSE)>>]

\* BitWriter::PutBytes(buf, size) past its assertions: memcpy, byte_pos_ += size
PutBytesStuffed(acc, nbits, buf, size) ==
  [bits_ |-> acc, nb_bits_ |-> nbits,
   out |-> IF size > 0 /\ buf[1] = Marker
           THEN <<Stored(buf[1], FALSE), Stored(0, TRUE)>>
                \o [i \in 1..(size - 1) |-> Stored(buf[i + 1], FALSE)]
           ELSE [i \in 1..size |-> Stored(buf[i], FALSE)]]
PutBytes(acc, nbits, buf, size) ==
  [bits_ |-> acc, nb_bits_ |-> nbits,
   out |-> [i \in 1..size |-> Stored(buf[i], FALSE)]]

\* BitWriter::PutPackedCode(code)
PutPackedCodeHigh24(acc, nbits, code) ==
  PutBits(acc, nbits, Shr(code, ByteBits),
          LowVal(BitAnd(code, ToWord(255)), ByteBits))
PutPackedCode(acc, nbits, code) ==
  PutBits(acc, nbits, Shr(code, 16), LowVal(BitAnd(code, ToWord(255)), ByteBits))

\* BitWriter::Flush: pad with 1s up to the next byte boundary, then FlushBits
FlushPadZero(acc, nbits) ==
  LET nb_pad == (ByteBits - (nbits % ByteBits)) % ByteBits
      p == IF nb_pad > 0 THEN PutBits(acc, nbits, Zero, nb_pad)
           ELSE [bits_ |-> acc, nb_bits_ |-> nbits, out |-> <<>>]
  IN FlushBits(p.bits_, p.nb_bits_, p.out)
Flush(acc, nbits) ==
  LET nb_pad == (ByteBits - (nbits % ByteBits)) % ByteBits
      p == IF nb_pad > 0 THEN PutBits(acc, nbits, ToWord(2 ^ nb_pad - 1), nb_pad)
           ELSE [bits_ |-> acc, nb_bits_ |-> nbits, out |-> <<>>]
  IN FlushBits(p.bits_, p.nb_bits_, p.out)

\* BitWriter::Reserve(size)
ReserveNothingUsed(s, w, size, ok) ==
  LET r == Commit(s, 0, size, ok)
  IN [sink |-> r.sink,
      bw |-> [w EXCEPT !.buf_ = r.ret, !.byte_pos_ = 0],
      ret |-> r.ret # Null]
Reserve(s, w, size, ok) ==
  LET r == Commit(s, w.byte_pos_, size, ok)
  IN [sink |-> r.sink,
      bw |-> [w EXCEPT !.buf_ = r.ret, !.byte_pos_ = 0],
      ret |-> r.ret # Null]

\* BitWriter::Finalize: Reserve(0) && sink_->Finalize()
FinalizeDropPending(s, w, ok) ==
  LET r == Reserve(s, w, 0, ok)
      b == [r.bw EXCEPT !.bits_ = Zero, !.nb_bits_ = 0]
  IN IF r.ret
     THEN LET f == SinkFinalize(r.sink)
          IN [sink |-> f.sink, bw |-> b, ret |-> f.ret,
              reserved |-> TRUE, called |-> TRUE]
     ELSE [sink |-> r.sink, bw |-> b, ret |-> FALSE,
           reserved |-> FALSE, called |-> FALSE]
FinalizeIgnoreReserve(s, w, ok) ==
  LET r == Reserve(s, w, 0, ok)
      f == SinkFinalize(r.sink)
  IN [sink |-> f.sink, bw |-> r.bw, ret |-> f.ret,
      reserved |-> r.ret, called |-> TRUE]
Finalize(s, w, ok) ==
  LET r == Reserve(s, w, 0, ok)
  IN IF r.ret
     THEN LET f == SinkFinalize(r.sink)
          IN [sink |-> f.sink, bw |-> r.bw, ret |-> f.ret,
              reserved |-> TRUE, called |-> TRUE]
     ELSE [sink |-> r.sink, bw |-> r.bw, ret |-> FALSE,
           reserved |-> FALSE, called |-> FALSE]

----------------------------------------------------------------------------
(* The bit counter *)

\* BitCounter::BitCounter()
BitCounterNew == [bits_ |-> Zero, bit_pos_ |-> 0, size_ |-> 0]

\* the byte accounting of the writer's internal flush, counting only: while 8
\* or more bits are pending one byte is counted, and one more when it is 0xff
RECURSIVE CountBytes(_, _, _)
CountBytes(bits, bit_pos, size) ==
  IF bit_pos >= ByteBits
  THEN CountBytes(Shl(bits, ByteBits), bit_pos - ByteBits,
                  size + (IF Byte(Shr(bits, WordBits - ByteBits)) = Marker
                          THEN 2 ELSE 1))
  ELSE [bits_ |-> bits, bit_pos_ |-> bit_pos, size_ |-> size]

\* BitCounter::AddBits(bits, nbits): the semantics of PutBits, counting only:
\* the complete bytes pending are counted, then the code is appended; size_ is
\* a running total of bytes
AddBits(c, bits, nbits) ==
  LET f == CountBytes(c.bits_, c.bit_pos_, c.size_)
      n == f.bit_pos_ + nbits
  IN [bits_ |-> BitOr(f.bits_, Shl(bits, WordBits - n)),
      bit_pos_ |-> n,
      size_ |-> f.size_]

\* BitCounter::AddPackedCode(code)
AddPackedCode(c, code) ==
  AddBits(c, Shr(code, 16), LowVal(BitAnd(code, ToWord(255)), ByteBits))

\* BitCounter::Size()
Size(c) == c.size_

----------------------------------------------------------------------------
(* Initial states: a sink of either class, a BitWriter bound to it, a counter *)

NoPre == [pos |-> 0, cap |-> 0, used |-> 0, extra |-> 0]

\* the sinks a stream can start with: a MemorySink of any expected size, 0
\* included, whose allocation succeeded or failed (oom), or a StringSink on an
\* empty string
NewSinks ==
  {[sink |-> MemNew(e, ok), oom |-> ~ok] : e \in 0..MaxHint, ok \in BOOLEAN}
  \cup {[sink |-> StrNew(<<>>), oom |-> FALSE]}

Init ==
  /\ \E n \in NewSinks :
       /\ sink = n.sink
       /\ h = [nflush |-> 0, after |-> 0, oom |-> n.oom, rsize |-> 0, room |-> 0]
  /\ bw = BitWriterNew
  /\ bc = BitCounterNew
  /\ ret = Null
  /\ lastop = "new"
  /\ phase = "open"
  /\ wr = 0
  /\ acked = <<>>
  /\ pre = NoPre
  /\ marks = <<>>
  /\ calls = <<>>

----------------------------------------------------------------------------
(* The sink driven directly by a client that follows the Commit protocol *)

\* the client stores one byte in the region the last Commit returned
ClientWrite(b) ==
  /\ phase = "open"
  /\ lastop \in {"Commit", "Write"}
  /\ ret # Null
  /\ sink.pos_ + wr < Cap(sink)
  /\ sink' = Store(sink, sink.pos_ + wr, <<b>>)
  /\ wr' = wr + 1
  /\ lastop' = "Write"
  /\ UNCHANGED <<wvars, ret, phase, acked, pre>>

\* sink->Commit(used_size, extra_size)
ClientCommit(used_size, extra_size, ok) ==
  /\ phase = "open"
  /\ used_size <= wr
  /\ sink.pos_ + used_size + extra_size <= MaxNeed
  /\ LET r == Commit(sink, used_size, extra_size, ok)
     IN /\ sink' = r.sink
        /\ ret' = r.ret
        /\ acked' = acked \o SubSeq(Data(sink), sink.pos_ + 1, sink.pos_ + used_size)
        /\ pre' = [pos |-> sink.pos_, cap |-> Cap(sink), used |-> used_size,
                   extra |-> extra_size]
  /\ wr' = 0
  /\ lastop' = "Commit"
  /\ UNCHANGED <<wvars, phase>>

\* sink->Finalize()
ClientFinalize ==
  /\ phase = "open"
  /\ LET r == SinkFinalize(sink)
     IN /\ sink' = r.sink
        /\ ret' = r.ret
  /\ pre' = [pos |-> sink.pos_, cap |-> Cap(sink), used |-> 0, extra |-> 0]
  /\ phase' = "final"
  /\ lastop' = "Finalize"
  /\ wr' = 0
  /\ UNCHANGED <<wvars, acked>>

\* sink->Reset(), at any point
ClientReset ==
  /\ sink' = SinkReset(sink)
  /\ pre' = [pos |-> sink.pos_, cap |-> Cap(sink), used |-> 0, extra |-> 0]
  /\ phase' = "reset"
  /\ lastop' = "Reset"
  /\ wr' = 0
  /\ acked' = <<>>
  /\ ret' = Null
  /\ UNCHANGED wvars

\* sink.Release(&buf, &size) of a MemorySink, at any point
ClientRelease ==
  /\ IsMem(sink)
  /\ LET r == MemRelease(sink)
     IN /\ sink' = r.sink
        /\ pre' = [pos |-> sink.pos_, cap |-> Cap(sink), used |-> 0, extra |-> 0,
                   buf |-> r.buf, null |-> r.null, size |-> r.size,
                   acked |-> acked, prev |-> lastop]
  /\ phase' = "released"
  /\ lastop' = "Release"
  /\ wr' = 0
  /\ acked' = <<>>
  /\ ret' = Null
  /\ UNCHANGED wvars

SinkNext ==
  \/ \E b \in ByteVals : ClientWrite(b)
  \/ \E u \in 0..wr, e \in 0..MaxExtra, ok \in BOOLEAN : ClientCommit(u, e, ok)
  \/ ClientFinalize
  \/ ClientReset
  \/ ClientRelease

SinkSpec == Init /\ [][SinkNext]_vars

----------------------------------------------------------------------------
(* The bit writer driven by an encoder, the counter replaying the same codes *)

\* the bytes of the output so far: committed ones, then those written since
Stream == SubSeq(Data(sink), 1, sink.pos_ + bw.byte_pos_)

NbSet == {1, 7, MaxNb}
CodeVals(nb) == {0, 2 ^ (nb - 1), 2 ^ nb - 1}
ReserveSizes == {RegionSize}
\* <<bits, unused byte, nb>> of the packed codes tried
PackedInputs == {<<2, 0, 2>>, <<65535, 90, 16>>}

WillGrow(s, used_size, extra_size) == s.pos_ + used_size + extra_size > Cap(s)

\* the effect of an operation that left accumulator r.bits_ / r.nb_bits_ and
\* stored r.out through buf_[byte_pos_++]; it must fit in the reserved region
Emit(r) ==
  /\ Len(r.out) > 0 => /\ bw.buf_ # Null
                       /\ bw.buf_ + bw.byte_pos_ + Len(r.out) <= Cap(sink)
  /\ sink' = IF Len(r.out) = 0 THEN sink
             ELSE Store(sink, bw.buf_ + bw.byte_pos_,
                        [i \in 1..Len(r.out) |-> r.out[i].v])
  /\ bw' = [bw EXCEPT !.bits_ = r.bits_, !.nb_bits_ = r.nb_bits_,
                      !.byte_pos_ = @ + Len(r.out)]
  /\ marks' = marks \o [i \in 1..Len(r.out) |-> r.out[i].esc]
  /\ pre' = [nb |-> bw.nb_bits_, bits |-> bw.bits_, len |-> Len(Stream),
             bc |-> bc]

\* bw.Reserve(size), called when less than RegionSize bytes are left to write in
DoReserve(size, ok) ==
  /\ phase = "open"
  /\ bw.buf_ = Null \/ Cap(sink) - (bw.buf_ + bw.byte_pos_) < RegionSize
  /\ ok \/ WillGrow(sink, bw.byte_pos_, size)
  /\ LET r == Reserve(sink, bw, size, ok)
     IN /\ sink' = r.sink
        /\ bw' = r.bw
        /\ ret' = r.ret
  /\ acked' = acked \o SubSeq(Data(sink), sink.pos_ + 1, sink.pos_ + bw.byte_pos_)
  /\ pre' = [pos |-> sink.pos_, cap |-> Cap(sink), used |-> bw.byte_pos_,
             extra |-> size]
  /\ h' = [h EXCEPT !.oom = @ \/ ~ok,
                   !.rsize = IF Reserve(sink, bw, size, ok).ret THEN size ELSE 0,
                   !.room = bw.nb_bits_]
  /\ lastop' = "Reserve"
  /\ UNCHANGED <<bc, phase, wr, marks, calls>>

\* bw.PutBits(bits, nb), and counter.AddBits(bits, nb)
DoPutBits(bits, nb) ==
  /\ phase = "open"
  /\ Len(calls) < MaxOps
  /\ ValidCode(ToWord(bits), nb)
  /\ Emit(PutBits(bw.bits_, bw.nb_bits_, ToWord(bits), nb))
  /\ bc' = AddBits(bc, ToWord(bits), nb)
  /\ calls' = Append(calls, <<bits, nb>>)
  /\ h' = [h EXCEPT !.after = @ + 1, !.room = @ + nb]
  /\ lastop' = "PutBits"
  /\ UNCHANGED <<ret, phase, wr, acked>>

\* bw.PutPackedCode(code), and counter.AddPackedCode(code)
DoPutPackedCode(bits, unused, nb) ==
  LET code == BitOr(Shl(ToWord(bits), 16), ToWord(unused * 256 + nb))
  IN /\ phase = "open"
     /\ Len(calls) < MaxOps
     /\ ValidCode(ToWord(bits), nb)
     /\ Emit(PutPackedCode(bw.bits_, bw.nb_bits_, code))
     /\ bc' = AddPackedCode(bc, code)
     /\ calls' = Append(calls, <<bits, nb>>)
     /\ h' = [h EXCEPT !.after = @ + 1, !.room = @ + nb]
     /\ lastop' = "PutPackedCode"
     /\ UNCHANGED <<ret, phase, wr, acked>>

\* bw.FlushBits(), when there is a complete byte to store
DoFlushBits ==
  /\ phase = "open"
  /\ bw.nb_bits_ >= ByteBits
  /\ Emit(FlushBits(bw.bits_, bw.nb_bits_, <<>>))
  /\ lastop' = "FlushBits"
  /\ UNCHANGED <<bc, ret, phase, wr, acked, calls, h>>

\* bw.Flush()
DoFlush ==
  /\ phase = "open"
  /\ h.nflush < MaxFlush
  /\ Emit(Flush(bw.bits_, bw.nb_bits_))
  /\ h' = [h EXCEPT !.nflush = @ + 1, !.after = 0,
                   !.room = @ + ((ByteBits - (bw.nb_bits_ % ByteBits)) % ByteBits)]
  /\ lastop' = "Flush"
  /\ UNCHANGED <<bc, ret, phase, wr, acked, calls>>

\* bw.Finalize()
DoFinalize ==
  /\ phase = "open"
  /\ LET r == Finalize(sink, bw, TRUE)
     IN /\ sink' = r.sink
        /\ bw' = r.bw
        /\ ret' = r.ret
        /\ pre' = [prev |-> lastop, reserved |-> r.reserved, called |-> r.called,
                   len |-> Len(Stream), cap |-> Cap(sink), pos |-> sink.pos_,
                   nb |-> bw.nb_bits_, bits |-> bw.bits_]
  /\ acked' = acked \o SubSeq(Data(sink), sink.pos_ + 1, sink.pos_ + bw.byte_pos_)
  /\ h' = [h EXCEPT !.rsize = 0, !.room = bw.nb_bits_]
  /\ phase' = "final"
  /\ lastop' = "Finalize"
  /\ UNCHANGED <<bc, wr, marks, calls>>

Next ==
  \/ \E size \in ReserveSizes, ok \in BOOLEAN : DoReserve(size, ok)
  \/ \E nb \in NbSet : \E bits \in CodeVals(nb) : DoPutBits(bits, nb)
  \/ \E c \in PackedInputs : DoPutPackedCode(c[1], c[2], c[3])
  \/ DoFlushBits
  \/ DoFlush
  \/ DoFinalize

Spec == Init /\ [][Next]_vars

\* bw.PutByte(value).  With bits pending, assert(nb_bits_ == 0) fails: a build
\* with assertions aborts there, a build with NDEBUG carries on and stores.
DoPutByte(value, ndebug) ==
  /\ phase = "open"
  /\ Len(calls) < MaxOps
  /\ IF bw.nb_bits_ = 0 \/ ndebug
     THEN /\ Emit(PutByte(bw.bits_, bw.nb_bits_, value))
          /\ phase' = phase
     ELSE /\ phase' = "aborted"
          /\ pre' = [nb |-> bw.nb_bits_, bits |-> bw.bits_, len |-> Len(Stream),
             bc |-> bc]
          /\ UNCHANGED <<sink, bw, marks>>
  /\ calls' = Append(calls, <<<<value>>, 0>>)
  /\ lastop' = "PutByte"
  /\ UNCHANGED <<bc, ret, wr, acked, h>>

\* bw.PutBytes(buf, size) with a buffer of size > 0 bytes; the assertion on
\* pending bits as in PutByte
DoPutBytes(buf, ndebug) ==
  /\ phase = "open"
  /\ Len(calls) < MaxOps
  /\ IF bw.nb_bits_ = 0 \/ ndebug
     THEN /\ Emit(PutBytes(bw.bits_, bw.nb_bits_, buf, Len(buf)))
          /\ phase' = phase
     ELSE /\ phase' = "aborted"
          /\ pre' = [nb |-> bw.nb_bits_, bits |-> bw.bits_, len |-> Len(Stream),
             bc |-> bc]
          /\ UNCHANGED <<sink, bw, marks>>
  /\ calls' = Append(calls, <<buf, 0>>)
  /\ lastop' = "PutBytes"
  /\ UNCHANGED <<bc, ret, wr, acked, h>>

\* <<bits, nb>> of the codes, and the buffers, written between raw bytes
RawCodes == {<<1, 1>>, <<Marker, ByteBits>>}
RawBufs == {<<Marker, 7>>, <<7, Marker, Marker>>}

RawNext ==
  \/ \E ok \in BOOLEAN : DoReserve(RegionSize, ok)
  \/ \E c \in RawCodes : DoPutBits(c[1], c[2])
  \/ \E v \in ByteVals, ndebug \in BOOLEAN : DoPutByte(v, ndebug)
  \/ \E b \in RawBufs, ndebug \in BOOLEAN : DoPutBytes(b, ndebug)
  \/ DoFlushBits
  \/ DoFlush
  \/ DoFinalize

\* codes and raw bytes written through the same writer
RawSpec == Init /\ [][RawNext]_vars

ByteNext ==
  \/ DoReserve(RegionSize, TRUE)
  \/ \E v \in 0..Marker : calls = <<>> /\ DoPutBits(v, ByteBits)
  \/ DoFlush
  \/ DoFinalize

\* one byte written through PutBits on a fresh writer, for every byte value
ByteSpec == Init /\ [][ByteNext]_vars

----------------------------------------------------------------------------
(* What the output says, read back *)

\* the stream without the byte that follows each 0xff
RECURSIVE Unstuff(_)
Unstuff(bytes) ==
  IF bytes = <<>> THEN <<>>
  ELSE IF Head(bytes) = Marker
       THEN <<Marker>> \o (IF Len(bytes) >= 2 THEN Unstuff(Tail(Tail(bytes))) ELSE <<>>)
       ELSE <<Head(bytes)>> \o Unstuff(Tail(bytes))

\* the low n bits of value x, most significant first
Bits(x, n) == [i \in 1..n |-> (x \div 2 ^ (n - i)) % 2]

\* the bits of a byte sequence, most significant first
RECURSIVE BitsOf(_)
BitsOf(bytes) ==
  IF bytes = <<>> THEN <<>> ELSE Bits(Head(bytes), ByteBits) \o BitsOf(Tail(bytes))

\* the bits the caller appended, in call order
RECURSIVE CodeBits(_)
CodeBits(cs) ==
  IF cs = <<>> THEN <<>> ELSE Bits(Head(cs)[1], Head(cs)[2]) \o CodeBits(Tail(cs))

\* the pending bits of the accumulator
Pending(w) == [i \in 1..w.nb_bits_ |-> w.bits_[i]]

Ones(k) == [i \in 1..k |-> 1]

----------------------------------------------------------------------------
(* Claims about the bit writer and the counter, checked under Spec *)

\* C1: every 0xff that FlushBits stores is followed at once by a 0x00 stored by
\* its escaping statement, and that statement stores a 0x00 only right after a
\* stored 0xff.
C1_EscapeRule ==
  /\ Len(marks) = Len(Stream)
  /\ \A i \in 1..Len(Stream) :
       /\ (~marks[i] /\ Stream[i] = Marker) =>
             (i < Len(Stream) /\ marks[i + 1] /\ Stream[i + 1] = 0)
       /\ marks[i] =>
             (i > 1 /\ ~marks[i - 1] /\ Stream[i - 1] = Marker /\ Stream[i] = 0)

\* a stream with an escaped 0xff and with a 0x00 of the data after another byte
C1_Witness ==
  /\ \E i \in 1..Len(Stream) : marks[i]
  /\ \E j \in 2..Len(Stream) : Stream[j] = 0 /\ ~marks[j] /\ Stream[j - 1] # Marker

C3_BitOrder ==
  /\ h.nflush = 0 =>
        BitsOf(Unstuff(Stream)) \o Pending(bw) = CodeBits(calls)
  /\ (h.nflush = 1 /\ h.after = 0) =>
        \E k \in 0..(ByteBits - 1) :
           BitsOf(Unstuff(Stream)) = CodeBits(calls) \o Ones(k)

\* two codes of different bits, flushed, with padding and an escape in the stream
C3_Witness ==
  /\ lastop = "Flush" /\ h.nflush = 1
  /\ Len(calls) = 2
  /\ Len(CodeBits(calls)) % ByteBits # 0
  /\ \E i, j \in 1..Len(CodeBits(calls)) : CodeBits(calls)[i] # CodeBits(calls)[j]
  /\ \E i \in 1..Len(marks) : marks[i]

\* C4: PutBits(v, 8) then Flush on a fresh writer gives the one byte v, or 0xff
\* and 0x00 when v is 0xff.
C4_OneByte ==
  (lastop = "Flush" /\ Len(calls) = 1 /\ calls[1][2] = ByteBits) =>
     Stream = IF calls[1][1] = Marker THEN <<Marker, 0>> ELSE <<calls[1][1]>>

\* PutBits(0xff, 8) then Flush
C4_Witness ==
  /\ lastop = "Flush"
  /\ calls = <<<<Marker, ByteBits>>>>
  /\ Stream = <<Marker, 0>>

\* C5: Flush leaves no pending bit; it appends the pending bits and then only
\* 1 bits, as few as reach the next byte boundary (none when already there).
C5_FlushPads ==
  (lastop = "Flush") =>
     LET now == BitsOf(Unstuff(Stream))
         was == BitsOf(Unstuff(SubSeq(Stream, 1, pre.len)))
         queued == [i \in 1..pre.nb |-> pre.bits[i]]
         k == Len(now) - Len(was) - pre.nb
     IN /\ bw.nb_bits_ = 0
        /\ k \in 0..(ByteBits - 1)
        /\ (pre.nb % ByteBits = 0) => k = 0
        /\ (pre.nb + k) % ByteBits = 0
        /\ now = was \o queued \o Ones(k)

\* a Flush that found more than three bytes' worth of bits, not all of them 1
C5_Witness ==
  /\ lastop = "Flush"
  /\ pre.nb > MaxNb
  /\ pre.nb % ByteBits # 0
  /\ \E i \in 1..pre.nb : pre.bits[i] = 0

C14_WorstCaseExpansion ==
  /\ lastop \in {"FlushBits", "PutBits", "PutPackedCode"} =>
        Len(Stream) - pre.len \in 0..MaxFlushBytes
  /\ bw.byte_pos_ <= 2 * ((h.room + ByteBits - 1) \div ByteBits)
  /\ (bw.buf_ # Null /\ h.rsize >= 2 * ((h.room + ByteBits - 1) \div ByteBits)) =>
        bw.byte_pos_ <= h.rsize

\* a FlushBits that stored three escaped bytes, filling what the bits allow
C14_Witness ==
  /\ lastop = "FlushBits"
  /\ Len(Stream) - pre.len = MaxFlushBytes
  /\ bw.buf_ # Null
  /\ bw.byte_pos_ = 2 * ((h.room + ByteBits - 1) \div ByteBits)
  /\ h.rsize >= bw.byte_pos_

\* C16: PutPackedCode(code) leaves the accumulator and the stream as
\* PutBits(code >> 16, code & 0xff) would, and AddPackedCode(code) leaves the
\* counter as AddBits(code >> 16, code & 0xff) would, whatever bits 8 to 15 of
\* code are.
C16_PackedCode ==
  (lastop = "PutPackedCode") =>
     LET c == calls[Len(calls)]
         e == PutBits(pre.bits, pre.nb, ToWord(c[1]), c[2])
     IN /\ bw.bits_ = e.bits_
        /\ bw.nb_bits_ = e.nb_bits_
        /\ Len(Stream) = pre.len + Len(e.out)
        /\ \A i \in 1..Len(e.out) :
              /\ Stream[pre.len + i] = e.out[i].v
              /\ marks[pre.len + i] = e.out[i].esc
        /\ bc = AddBits(pre.bc, ToWord(c[1]), c[2])

\* a packed code of 16 one-bits whose bits 8 to 15 are not zero, appended after
\* whole bytes of pending bits that it flushes, the counter counting an escape
C16_Witness ==
  /\ lastop = "PutPackedCode"
  /\ calls[Len(calls)] = <<65535, 16>>
  /\ pre.nb >= ByteBits
  /\ Len(Stream) > pre.len
  /\ bw.nb_bits_ = 16
  /\ Size(bc) > Size(pre.bc) + 3

\* the bytes the sink has been told of
Committed == SubSeq(Data(sink), 1, sink.pos_)

\* the committed bytes hold every bit the caller appended, in order
AllBitsOut ==
  LET o == BitsOf(Unstuff(Committed))
      c == CodeBits(calls)
  IN Len(o) >= Len(c) /\ SubSeq(o, 1, Len(c)) = c

\* Finalize leaves the accumulator as it found it and commits the bytes stored
\* before it, no more
FinalizeKeepsPending ==
  (lastop = "Finalize") =>
     /\ bw.bits_ = pre.bits
     /\ bw.nb_bits_ = pre.nb
     /\ pre.reserved => Len(Committed) = pre.len

\* C17 as claimed: Finalize does not flush, with 0 or with 1 to 31 bits pending,
\* and the committed output holds every appended bit only if Flush was called
\* after the last PutBits.
C17_AllBitsOnlyAfterFlush ==
  /\ FinalizeKeepsPending
  /\ (lastop = "Finalize" /\ pre.reserved /\ Len(calls) > 0
        /\ (h.nflush = 0 \/ h.after = 0) /\ AllBitsOut) =>
        (h.nflush > 0 /\ h.after = 0)

\* C17, amended: Finalize does not flush, with 0 or with 1 to 31 bits pending;
\* in a stream without Flush the committed output holds the appended bits but
\* the pending ones, so it holds them all exactly when none is pending, which
\* FlushBits alone achieves when the bits make whole bytes; and it holds them
\* all when Flush was the last operation before Finalize.
C17_FinalizeNoFlush ==
  /\ FinalizeKeepsPending
  /\ (lastop = "Finalize" /\ pre.reserved /\ h.nflush = 0) =>
        /\ BitsOf(Unstuff(Committed)) \o Pending(bw) = CodeBits(calls)
        /\ AllBitsOut <=> (bw.nb_bits_ = 0)
  /\ (lastop = "Finalize" /\ pre.reserved /\ pre.prev = "Flush"
        /\ h.nflush = 1 /\ h.after = 0) =>
        (bw.nb_bits_ = 0 /\ AllBitsOut)

\* a Finalize that succeeded with bits pending, after bytes were stored
C17_Witness ==
  /\ lastop = "Finalize" /\ ret = TRUE
  /\ bw.nb_bits_ > 0 /\ bw.nb_bits_ = pre.nb
  /\ \E i \in 1..bw.nb_bits_ : bw.bits_[i] = 1
  /\ Len(Committed) > 0
  /\ ~AllBitsOut

\* C18: in every reachable state the accumulator holds its pending bits in its
\* top nb_bits_ positions and zeros below: a left shift by nb_bits_, truncated
\* to 32 bits, leaves nothing.  PutBits with valid codes, FlushBits, Flush and
\* Reserve all keep it so.
C18_CleanTail ==
  /\ bw.nb_bits_ \in 0..(WordBits - 1)
  /\ \A i \in (bw.nb_bits_ + 1)..WordBits : bw.bits_[i] = 0
  /\ Shl(bw.bits_, bw.nb_bits_) = Zero

\* 7 bits left by a FlushBits that stored three bytes, the last of them a 1,
\* and a Reserve after it
C18_Witness ==
  /\ lastop = "Reserve"
  /\ pre.used >= 3
  /\ bw.nb_bits_ = ByteBits - 1
  /\ bw.bits_[bw.nb_bits_] = 1
  /\ Len(calls) = 2

\* C12: with valid codes (1 <= nb <= 24) the number of pending bits is always
\* between 0 and 31; right after FlushBits, alone or inside PutBits or Flush, it
\* is less than 8, so PutBits shifts the code left by 1 to 31 positions and the
\* pending bits stay in front of the code it appends.
C12_PendingBound ==
  /\ bw.nb_bits_ \in 0..(WordBits - 1)
  /\ lastop \in {"FlushBits", "Flush"} => bw.nb_bits_ < ByteBits
  /\ lastop \in {"PutBits", "PutPackedCode"} =>
        LET c == calls[Len(calls)]
            f == FlushBits(pre.bits, pre.nb, <<>>)
        IN /\ c[2] \in 1..MaxNb
           /\ f.nb_bits_ < ByteBits
           /\ bw.nb_bits_ = f.nb_bits_ + c[2]
           /\ WordBits - bw.nb_bits_ \in 1..(WordBits - 1)
           /\ Pending(bw) = Pending(f) \o Bits(c[1], c[2])

\* 7 pending bits, not all 0, then a code of 24 bits: 31 bits are pending
C12_Witness ==
  /\ lastop = "PutBits"
  /\ pre.nb = ByteBits - 1
  /\ bw.nb_bits_ = WordBits - 1
  /\ \E i \in 1..pre.nb : pre.bits[i] = 1
  /\ calls[Len(calls)][2] = MaxNb

----------------------------------------------------------------------------
(* Claims about codes and raw bytes through one writer, checked under RawSpec *)

\* the steps of the operations that store bytes
IsWrite(op) == op \in {"PutBits", "PutPackedCode", "FlushBits", "Flush",
                       "PutByte", "PutBytes"}

\* C13: each Reserve acknowledges to Commit exactly the bytes the writer stored
\* since the previous Reserve and puts the cursor back to 0, so that after a
\* successful Reserve or Finalize the sink has been told of as many bytes as the
\* writer stored in all; Reserve returns false exactly when Commit returned no
\* region; and no step of PutBits, FlushBits, Flush, PutByte or PutBytes moves
\* the sink's count of used bytes, its capacity or the region of the writer.
C13_ExactlyOnceCommit ==
  /\ [](/\ lastop = "Reserve" =>
             /\ sink.pos_ - pre.pos = Len(marks) - pre.pos
             /\ pre.used = Len(marks) - pre.pos
             /\ bw.byte_pos_ = 0
             /\ ret = (bw.buf_ # Null)
             /\ ret => (sink.pos_ = Len(marks) /\ bw.buf_ = sink.pos_)
        /\ (lastop = "Finalize" /\ pre.reserved) =>
             /\ sink.pos_ = Len(marks)
             /\ bw.byte_pos_ = 0
        /\ sink.pos_ + bw.byte_pos_ = Len(marks))
  /\ [][IsWrite(lastop') =>
          /\ sink'.pos_ = sink.pos_
          /\ Cap(sink') = Cap(sink)
          /\ bw'.buf_ = bw.buf_
          /\ bw'.byte_pos_ - bw.byte_pos_ = Len(marks') - Len(marks)
          /\ ret' = ret]_vars

\* a second successful Reserve, acknowledging code bytes and raw bytes
C13_Witness ==
  /\ lastop = "Reserve" /\ ret = TRUE
  /\ pre.used >= 3
  /\ sink.pos_ = pre.used
  /\ \E i, j \in 1..Len(calls) : calls[i][2] = 0 /\ calls[j][2] > 0

\* the bytes handed to the last PutByte or PutBytes
RawInput == calls[Len(calls)][1]

\* what a PutByte or PutBytes that stored its bytes has done: the bytes are at
\* the end of the stream as given, none of them an escape, and the accumulator
\* is as before
RawStored ==
  /\ phase = "open"
  /\ Len(Stream) = pre.len + Len(RawInput)
  /\ SubSeq(Stream, pre.len + 1, Len(Stream)) = RawInput
  /\ \A i \in (pre.len + 1)..Len(Stream) : ~marks[i]
  /\ bw.nb_bits_ = pre.nb
  /\ bw.bits_ = pre.bits

\* what a PutByte or PutBytes stopped by its assertion has done: nothing
RawRejected ==
  /\ phase = "aborted"
  /\ Len(Stream) = pre.len
  /\ bw.nb_bits_ = pre.nb
  /\ bw.bits_ = pre.bits

\* C15 as claimed: with no pending bit PutByte and PutBytes store their bytes
\* raw and leave the accumulator alone; with pending bits the call is rejected
\* by the assertion and nothing is written.
C15_RawOrRejected ==
  lastop \in {"PutByte", "PutBytes"} =>
     IF pre.nb = 0 THEN RawStored ELSE RawRejected

\* C15, amended: with no pending bit PutByte and PutBytes store their bytes raw
\* and leave the accumulator alone; with pending bits a build with assertions
\* stops at the assertion without writing, and a build without them stores the
\* bytes raw all the same, the pending bits staying in the accumulator.
C15_RawBytes ==
  lastop \in {"PutByte", "PutBytes"} =>
     IF pre.nb = 0 THEN RawStored ELSE (RawRejected \/ RawStored)

\* PutBytes of 0xff bytes on a byte boundary, after earlier output
C15_Witness ==
  /\ lastop = "PutBytes"
  /\ pre.nb = 0 /\ pre.len > 0
  /\ RawInput = <<7, Marker, Marker>>
  /\ SubSeq(Stream, Len(Stream) - 1, Len(Stream)) = <<Marker, Marker>>
  /\ bw.byte_pos_ >= 3

----------------------------------------------------------------------------
(* Claims about the sinks, checked under SinkSpec *)

\* C6: MemorySink keeps committed bytes: in every state the first pos_ bytes of
\* the buffer are exactly the bytes acknowledged as used so far, in order, also
\* right after a Commit that reallocated the buffer.
C6_CommittedBytesPreserved ==
  (IsMem(sink) /\ phase # "reset") =>
     /\ sink.pos_ = Len(acked)
     /\ sink.pos_ <= Len(sink.buf_)
     /\ \A i \in 1..Len(acked) : sink.buf_[i] = acked[i]

\* a Commit that grew the buffer while two bytes of different value were committed
C6_Witness ==
  /\ IsMem(sink) /\ lastop = "Commit" /\ ret # Null
  /\ sink.max_pos_ > pre.cap
  /\ pre.pos >= 2
  /\ acked[1] # acked[2]

\* C7: a Commit that does not fail returns a region that starts right after the
\* bytes acknowledged so far and holds at least extra_size bytes; a growth of
\* MemorySink allocates at least twice the old capacity and at least the need.
C7_RegionLargeEnough ==
  (lastop = "Commit" /\ ret # Null) =>
     /\ ret = sink.pos_
     /\ ret = Len(acked)
     /\ ret = pre.pos + pre.used
     /\ Cap(sink) - ret >= pre.extra
     /\ (IsMem(sink) /\ sink.max_pos_ # pre.cap) =>
           /\ sink.max_pos_ >= 2 * pre.cap
           /\ sink.max_pos_ >= pre.pos + pre.used + pre.extra

\* a successful Commit of MemorySink that had to grow, where doubling exceeds the need
C7_Witness ==
  /\ lastop = "Commit" /\ ret # Null /\ IsMem(sink)
  /\ sink.max_pos_ > pre.cap
  /\ pre.extra > 0
  /\ 2 * pre.cap > pre.pos + pre.used + pre.extra

\* C8: after StringSink::Finalize the container is as long as the bytes used,
\* whatever was reserved beyond them, and Finalize returned true.
C8_FinalizeTruncates ==
  (lastop = "Finalize" /\ ~IsMem(sink)) =>
     /\ Len(sink.str_) = Len(acked)
     /\ sink.str_ = acked
     /\ ret = TRUE

\* Finalize of a StringSink that held more bytes than were used
C8_Witness ==
  /\ lastop = "Finalize" /\ ~IsMem(sink)
  /\ Len(acked) > 0
  /\ pre.cap > Len(acked)
  /\ Len(sink.str_) = Len(acked)

\* C11: Release hands over the buffer and, as its size, the number of bytes
\* acknowledged as used by the Commit calls so far, whatever the capacity; the
\* first size bytes of the buffer are those bytes.  Afterwards the sink holds no
\* buffer and is empty, so a Release that follows at once yields no data.
C11_ReleaseHandsOver ==
  (lastop = "Release") =>
     /\ pre.size = Len(pre.acked)
     /\ pre.size <= pre.cap
     /\ ~pre.null => /\ Len(pre.buf) = pre.cap
                     /\ \A i \in 1..pre.size : pre.buf[i] = pre.acked[i]
     /\ sink.null /\ sink.buf_ = <<>> /\ sink.pos_ = 0 /\ sink.max_pos_ = 0
     /\ (pre.prev = "Release") => (pre.null /\ pre.size = 0)

\* a Release of a buffer larger than the two differing bytes acknowledged
C11_Witness ==
  /\ lastop = "Release" /\ ~pre.null
  /\ pre.size = 2 /\ pre.cap > pre.size
  /\ pre.buf[1] # pre.buf[2]
  /\ sink.null

\* C9 as claimed: after Reset the sink is as freshly constructed: nothing to
\* retrieve and the write cursor at zero.
C9_ResetRestoresInitial ==
  (lastop = "Reset") => (Len(Data(sink)) = 0 /\ sink.pos_ = 0)

====
